---- MODULE Spec2Model ----
(***************************************************************************)
(* Model of clue.py: the MysteryGame object, its three public operations   *)
(* (generate_mystery, create_game_directories, create_breadcrumbs), the    *)
(* directory tree they write under "game", and the random source they      *)
(* draw from.                                                              *)
(*                                                                         *)
(* Representation.  A location path ("town hall/offices") is the sequence  *)
(* of its segment names; the empty string is the empty sequence.  Key      *)
(* gives the path's character string (code points joined by "/") that      *)
(* list.sort compares.  Text files are held as the values formatted into   *)
(* them: persons.txt / objects.txt as their list of lines, a clue.txt as a *)
(* record naming its template family and the values substituted.           *)
(***************************************************************************)
EXTENDS Integers, Sequences, FiniteSets, TLC

(* ------------------------------ bounds -------------------------------- *)
\* resolution of the random source: a draw is one of RandLevels equally
\* spaced points of [0, 1)
RandLevels == 36
\* largest step between two successive draws of one generator
MaxStride == 3
\* arguments passed to generate_mystery
InputCounts == {-1, 0, 3, 6, 21}

(* ------------------------- static program data ------------------------ *)
\* the nested dict: a sequence of <<name, substructure>> in insertion order
structure ==
  <<
    <<"town hall", <<
      <<"offices", <<
        <<"records", <<
          <<"archives", <<>>>> >>>>,
        <<"meeting rooms", <<
          <<"council chamber", <<>>>> >>>> >>>> >>>>,
    <<"park", <<
      <<"playground", <<
        <<"sandbox", <<>>>> >>>>,
      <<"pond", <<
        <<"dock", <<>>>> >>>>,
      <<"gazebo", <<>>>> >>>>,
    <<"shops", <<
      <<"bakery", <<
        <<"kitchen", <<>>>>,
        <<"storage", <<>>>> >>>>,
      <<"market", <<
        <<"aisles", <<>>>>,
        <<"stockroom", <<>>>> >>>>,
      <<"cafe", <<>>>> >>>>,
    <<"houses", <<
      <<"mansion", <<
        <<"library", <<
          <<"study", <<>>>> >>>>,
        <<"garden", <<
          <<"greenhouse", <<>>>> >>>> >>>>,
      <<"cottage", <<
        <<"living room", <<>>>>,
        <<"cellar", <<>>>> >>>> >>>>,
    <<"school", <<
      <<"classrooms", <<
        <<"science lab", <<>>>>,
        <<"art room", <<>>>> >>>>,
      <<"gymnasium", <<>>>>,
      <<"cafeteria", <<
        <<"kitchen", <<>>>> >>>> >>>> >>

all_people ==
  << "The Librarian", "The Shopkeeper", "The Gardener", "The Teacher",
     "The Mayor", "The Chef", "The Postman", "The Baker",
     "The Police Officer", "The Doctor", "The Artist", "The Musician",
     "The Carpenter", "The Tailor", "The Banker", "The Journalist",
     "The Florist", "The Clockmaker", "The Blacksmith", "The Innkeeper" >>

all_objects ==
  << "Garden Shears", "Kitchen Knife", "Heavy Book", "Bronze Trophy",
     "Glass Bottle", "Letter Opener", "Walking Stick", "Brass Candlestick",
     "Old Key", "Fountain Pen", "Silver Watch", "Magnifying Glass",
     "Antique Compass", "Paint Brush", "Crystal Vase", "Iron Poker",
     "Leather Gloves", "Brass Bell", "Steel Ruler", "Wooden Box" >>

\* code points of the segment names
Chars ==
     "town hall" :> <<116, 111, 119, 110, 32, 104, 97, 108, 108>>
  @@ "offices" :> <<111, 102, 102, 105, 99, 101, 115>>
  @@ "records" :> <<114, 101, 99, 111, 114, 100, 115>>
  @@ "archives" :> <<97, 114, 99, 104, 105, 118, 101, 115>>
  @@ "meeting rooms" :> <<109, 101, 101, 116, 105, 110, 103, 32, 114, 111, 111, 109, 115>>
  @@ "council chamber" :> <<99, 111, 117, 110, 99, 105, 108, 32, 99, 104, 97, 109, 98, 101, 114>>
  @@ "park" :> <<112, 97, 114, 107>>
  @@ "playground" :> <<112, 108, 97, 121, 103, 114, 111, 117, 110, 100>>
  @@ "sandbox" :> <<115, 97, 110, 100, 98, 111, 120>>
  @@ "pond" :> <<112, 111, 110, 100>>
  @@ "dock" :> <<100, 111, 99, 107>>
  @@ "gazebo" :> <<103, 97, 122, 101, 98, 111>>
  @@ "shops" :> <<115, 104, 111, 112, 115>>
  @@ "bakery" :> <<98, 97, 107, 101, 114, 121>>
  @@ "kitchen" :> <<107, 105, 116, 99, 104, 101, 110>>
  @@ "storage" :> <<115, 116, 111, 114, 97, 103, 101>>
  @@ "market" :> <<109, 97, 114, 107, 101, 116>>
  @@ "aisles" :> <<97, 105, 115, 108, 101, 115>>
  @@ "stockroom" :> <<115, 116, 111, 99, 107, 114, 111, 111, 109>>
  @@ "cafe" :> <<99, 97, 102, 101>>
  @@ "houses" :> <<104, 111, 117, 115, 101, 115>>
  @@ "mansion" :> <<109, 97, 110, 115, 105, 111, 110>>
  @@ "library" :> <<108, 105, 98, 114, 97, 114, 121>>
  @@ "study" :> <<115, 116, 117, 100, 121>>
  @@ "garden" :> <<103, 97, 114, 100, 101, 110>>
  @@ "greenhouse" :> <<103, 114, 101, 101, 110, 104, 111, 117, 115, 101>>
  @@ "cottage" :> <<99, 111, 116, 116, 97, 103, 101>>
  @@ "living room" :> <<108, 105, 118, 105, 110, 103, 32, 114, 111, 111, 109>>
  @@ "cellar" :> <<99, 101, 108, 108, 97, 114>>
  @@ "school" :> <<115, 99, 104, 111, 111, 108>>
  @@ "classrooms" :> <<99, 108, 97, 115, 115, 114, 111, 111, 109, 115>>
  @@ "science lab" :> <<115, 99, 105, 101, 110, 99, 101, 32, 108, 97, 98>>
  @@ "art room" :> <<97, 114, 116, 32, 114, 111, 111, 109>>
  @@ "gymnasium" :> <<103, 121, 109, 110, 97, 115, 105, 117, 109>>
  @@ "cafeteria" :> <<99, 97, 102, 101, 116, 101, 114, 105, 97>>

(* ------------------------------ helpers ------------------------------- *)
Max(a, b) == IF a >= b THEN a ELSE b

Min(a, b) == IF a <= b THEN a ELSE b

Range(s) == {s[i] : i \in 1..Len(s)}

\* _get_all_rooms.get_paths: pre-order walk, each path before its subtree
RECURSIVE get_paths(_, _)
get_paths(struct, current_path) ==
  IF struct = <<>> THEN <<>>
  ELSE LET name == Head(struct)[1]
           substructure == Head(struct)[2]
           new_path == Append(current_path, name)
       IN <<new_path>> \o get_paths(substructure, new_path)
                       \o get_paths(Tail(struct), current_path)

all_rooms == get_paths(structure, <<>>)

Rooms == Range(all_rooms)

\* the character string of a path: segments joined by "/" (code point 47)
RECURSIVE Key(_)
Key(path) ==
  IF path = <<>> THEN <<>>
  ELSE IF Len(path) = 1 THEN Chars[path[1]]
  ELSE Chars[path[1]] \o <<47>> \o Key(Tail(path))

path_str == [r \in Rooms |-> Key(r)]

\* str < str: first differing code point decides, a proper prefix is smaller
RECURSIVE StrLess(_, _)
StrLess(a, b) ==
  IF b = <<>> THEN FALSE
  ELSE IF a = <<>> THEN TRUE
  ELSE IF Head(a) # Head(b) THEN Head(a) < Head(b)
  ELSE StrLess(Tail(a), Tail(b))

\* str.split('/') of a path string: "" splits into the one segment ""
split(path) == IF path = <<>> THEN <<"">> ELSE path

Last(s) == s[Len(s)]

(* ------------------------------- state -------------------------------- *)
VARIABLES
  suspects, weapons, guilty_suspect, murder_weapon, murder_location,
  room_contents,   \* MysteryGame fields
  rng,             \* state of the module-level random generator
  game_dirs,       \* directories existing under (and including) "game"
  persons_txt, objects_txt, clue_txt, notebook_md,  \* files, by directory
  stdout,          \* lines printed
  trace,           \* methods called so far, with the exception each raised
  args,            \* arguments of the generate_mystery call
  gm,              \* locals of the generate_mystery call
  important_rooms, \* value returned by create_breadcrumbs
  fault,           \* the one path operation the file system refuses
  pair, hop        \* a (current, next) pair of paths and its hop class

vars == <<suspects, weapons, guilty_suspect, murder_weapon, murder_location,
          room_contents, rng, game_dirs, persons_txt, objects_txt, clue_txt,
          notebook_md, stdout, trace, args, gm, important_rooms, fault,
          pair, hop>>

game == <<suspects, weapons, guilty_suspect, murder_weapon, murder_location,
          room_contents>>

disk == <<game_dirs, persons_txt, objects_txt, clue_txt, notebook_md>>

NoFault == [kind |-> "none", room |-> <<>>]

Faults == {[kind |-> k, room |-> r] :
             k \in {"mkdir", "persons", "objects", "clue"}, r \in Rooms}

NoLocals == [num_suspects |-> 0, num_weapons |-> 0,
             extra_people_count |-> 0, extra_objects_count |-> 0,
             distribution_people |-> <<>>, distribution_objects |-> <<>>]

Called(op) == \E i \in 1..Len(trace) : trace[i].op = op

Returned(op) == \E i \in 1..Len(trace) :
                   trace[i].op = op /\ trace[i].raised = "none"

Log(op, exc) == Append(trace, [op |-> op, raised |-> exc])

(* --------------------------- random source ---------------------------- *)
\* randbelow(n) of the k-th draw after the current generator state
Draw(k, n) == (((rng.x + k * rng.d) % RandLevels) * n) \div RandLevels

Advance(count) == [rng EXCEPT !.x = (rng.x + count * rng.d) % RandLevels]

\* random.choice(seq): seq[randbelow(len(seq))]
random_choice(seq, k) == seq[Draw(k, Len(seq)) + 1]

\* random.sample(population, count), pool variant: pick pool[j] among the
\* first m, then move pool[m] into the hole
RECURSIVE sample_from(_, _, _, _)
sample_from(pool, m, count, k) ==
  IF count = 0 THEN <<>>
  ELSE LET j == Draw(k, m) + 1
       IN <<pool[j]>> \o
          sample_from([pool EXCEPT ![j] = pool[m]], m - 1, count - 1, k + 1)

random_sample(population, count, k) ==
  sample_from(population, Len(population), count, k)

\* random.sample raises ValueError unless 0 <= count <= len(population)
sample_ok(population, count) == 0 <= count /\ count <= Len(population)

(* -------------------------- __init__ ---------------------------------- *)
Seeds == [x : 0..(RandLevels - 1), d : 0..MaxStride]

InitGame ==
  /\ suspects = <<>>
  /\ weapons = <<>>
  /\ guilty_suspect = ""
  /\ murder_weapon = ""
  /\ murder_location = <<>>
  /\ room_contents = <<>>
  /\ game_dirs = {}
  /\ persons_txt = <<>>
  /\ objects_txt = <<>>
  /\ clue_txt = <<>>
  /\ notebook_md = <<>>
  /\ stdout = <<>>
  /\ trace = <<>>
  /\ args = <<>>
  /\ gm = NoLocals
  /\ important_rooms = <<>>

Init ==
  /\ InitGame
  /\ rng \in Seeds
  /\ fault = NoFault
  /\ pair = <<>>
  /\ hop = "none"

(* ------------------------ generate_mystery ---------------------------- *)
\* the clamp without its lower limit
clamp_upper_only(n, pool) == Min(n, Len(pool))

\* max(3, min(n, len(pool)))
clamp_count(n, pool) == Max(3, Min(n, Len(pool)))

\* rounding an exact half upwards
round_half_up(n) == (n + 1) \div 2

\* round(n * 0.5): Python 3 rounds an exact half to the even neighbour
round_half(n) ==
  IF n % 2 = 0 THEN n \div 2
  ELSE LET lo == (n - 1) \div 2 IN IF lo % 2 = 0 THEN lo ELSE lo + 1

\* the room list without the murder location taken out
available_rooms_all(location) == all_rooms

\* [r for r in self.all_rooms if r != self.murder_location]
available_rooms_of(location) == SelectSeq(all_rooms, LAMBDA r : r # location)

\* the entities of dist that the loop appends to room: the i-th entity goes
\* to rooms[randbelow(len(rooms))] of draw k + i - 1
placed_in(dist, rooms, k, room) ==
  LET idx == [i \in 1..Len(dist) |-> i]
      here == SelectSeq(idx, LAMBDA i : random_choice(rooms, k + i - 1) = room)
  IN [j \in 1..Len(here) |-> dist[here[j]]]

generate_mystery(num_suspects_arg, num_weapons_arg) ==
  LET num_suspects == clamp_count(num_suspects_arg, all_people)
      num_weapons == clamp_count(num_weapons_arg, all_objects)
      k1 == IF num_suspects > 0 THEN num_suspects ELSE 0
      k2 == k1 + (IF num_weapons > 0 THEN num_weapons ELSE 0)
      k3 == k2 + 3
      locals == [NoLocals EXCEPT !.num_suspects = num_suspects,
                                 !.num_weapons = num_weapons]
      Raise(exc, count) ==
        /\ trace' = Log("generate_mystery", exc)
        /\ rng' = Advance(count)
        /\ gm' = locals
  IN
  /\ trace = <<>>
  /\ args' = <<num_suspects_arg, num_weapons_arg>>
  /\ UNCHANGED <<disk, stdout, important_rooms, fault, pair, hop>>
  /\ IF ~sample_ok(all_people, num_suspects)
     THEN /\ Raise("ValueError", 0)
          /\ UNCHANGED game
     ELSE \E new_suspects \in {random_sample(all_people, num_suspects, 0)} :
     IF ~sample_ok(all_objects, num_weapons)
     THEN /\ Raise("ValueError", k1)
          /\ suspects' = new_suspects
          /\ UNCHANGED <<weapons, guilty_suspect, murder_weapon,
                         murder_location, room_contents>>
     ELSE \E new_weapons \in {random_sample(all_objects, num_weapons, k1)} :
     IF new_suspects = <<>> \/ new_weapons = <<>>
     THEN /\ Raise("IndexError", k2)
          /\ suspects' = new_suspects
          /\ weapons' = new_weapons
          /\ UNCHANGED <<guilty_suspect, murder_weapon, murder_location,
                         room_contents>>
     ELSE \E guilty \in {random_choice(new_suspects, k2)},
             weapon \in {random_choice(new_weapons, k2 + 1)},
             location \in {random_choice(all_rooms, k2 + 2)} :
          \E available_suspects \in
               {SelectSeq(new_suspects, LAMBDA s : s # guilty)},
             available_weapons \in
               {SelectSeq(new_weapons, LAMBDA w : w # weapon)},
             available_rooms \in {available_rooms_of(location)},
             other_people \in
               {SelectSeq(all_people, LAMBDA p : p \notin Range(new_suspects))},
             other_objects \in
               {SelectSeq(all_objects, LAMBDA o : o \notin Range(new_weapons))} :
          \E extra_people_count \in
               {Min(Len(available_rooms) - Len(available_suspects),
                    round_half(20 - num_suspects))},
             extra_objects_count \in
               {Min(Len(available_rooms) - Len(available_weapons),
                    round_half(20 - num_weapons))} :
          /\ suspects' = new_suspects
          /\ weapons' = new_weapons
          /\ guilty_suspect' = guilty
          /\ murder_weapon' = weapon
          /\ murder_location' = location
          /\ IF ~sample_ok(other_people, extra_people_count)
                \/ ~sample_ok(other_objects, extra_objects_count)
             THEN /\ Raise("ValueError", k3)
                  /\ UNCHANGED room_contents
             ELSE \E distribution_people \in
                       {available_suspects \o
                        random_sample(other_people, extra_people_count, k3)},
                     distribution_objects \in
                       {available_weapons \o
                        random_sample(other_objects, extra_objects_count,
                                      k3 + extra_people_count)} :
                  LET k5 == k3 + extra_people_count + extra_objects_count
                      k6 == k5 + Len(distribution_people)
                      k7 == k6 + Len(distribution_objects)
                  IN
                  /\ trace' = Log("generate_mystery", "none")
                  /\ rng' = Advance(k7)
                  /\ gm' = [locals EXCEPT
                              !.extra_people_count = extra_people_count,
                              !.extra_objects_count = extra_objects_count,
                              !.distribution_people = distribution_people,
                              !.distribution_objects = distribution_objects]
                  /\ room_contents' =
                       [room \in Rooms |->
                          [people |-> placed_in(distribution_people,
                                                available_rooms, k5, room),
                           objects |-> placed_in(distribution_objects,
                                                 all_rooms, k6, room)]]

(* --------------------- create_game_directories ------------------------ *)
Refused(kind, path) == fault = [kind |-> kind, room |-> path]

\* what one directory level produces: directories made, the two files
\* written per directory, lines printed
Nothing == [dirs |-> {}, persons |-> <<>>, objects |-> <<>>, out |-> <<>>]

Then(a, b) == [dirs |-> a.dirs \cup b.dirs, persons |-> a.persons @@ b.persons,
               objects |-> a.objects @@ b.objects, out |-> a.out \o b.out]

\* the nested create_directories: for each name in order, the directory and
\* its two files, then its subtree, then the remaining names
RECURSIVE create_directories(_, _)
create_directories(current_path, struct) ==
  IF struct = <<>> THEN Nothing
  ELSE
    LET name == Head(struct)[1]
        substructure == Head(struct)[2]
        new_path == Append(current_path, name)
        contents == IF new_path \in DOMAIN room_contents
                    THEN room_contents[new_path]
                    ELSE [people |-> <<>>, objects |-> <<>>]
        made == [Nothing EXCEPT !.dirs = {new_path}]
        written ==
          IF Refused("persons", new_path)
          THEN [made EXCEPT !.out = <<new_path>>]
          ELSE IF Refused("objects", new_path)
          THEN [made EXCEPT !.persons = new_path :> contents.people,
                            !.out = <<new_path>>]
          ELSE [made EXCEPT !.persons = new_path :> contents.people,
                            !.objects = new_path :> contents.objects]
    IN
    IF Refused("mkdir", new_path)
    THEN create_directories(current_path, Tail(struct))   \* continue
    ELSE Then(Then(written, create_directories(new_path, substructure)),
              create_directories(current_path, Tail(struct)))

create_game_directories ==
  /\ ~Called("create_game_directories")
  /\ \E st \in {create_directories(<<>>, structure)} :
       /\ game_dirs' = {<<>>} \cup st.dirs
       /\ persons_txt' = st.persons
       /\ objects_txt' = st.objects
       /\ stdout' = stdout \o st.out
  /\ clue_txt' = IF <<>> \in game_dirs THEN <<>> ELSE clue_txt   \* rmtree
  /\ notebook_md' = <<[suspects |-> suspects, weapons |-> weapons]>>
  /\ trace' = Log("create_game_directories", "none")
  /\ UNCHANGED <<game, rng, args, gm, important_rooms, fault, pair, hop>>

(* ------------------------- create_breadcrumbs ------------------------- *)
\* list.sort() on path strings
RECURSIVE insert_sorted(_, _)
insert_sorted(x, s) ==
  IF s = <<>> THEN <<x>>
  ELSE IF StrLess(path_str[x], path_str[Head(s)]) THEN <<x>> \o s
  ELSE <<Head(s)>> \o insert_sorted(x, Tail(s))

\* the list left in scan order
sort_missing(s) == s

RECURSIVE sort(_)
sort(s) == IF s = <<>> THEN <<>> ELSE insert_sorted(Head(s), sort(Tail(s)))

\* the test that takes any person present for a suspect
has_suspect_anyone(contents) == contents.people # <<>>

has_suspect(contents) ==
  \E i \in 1..Len(contents.people) : contents.people[i] \in Range(suspects)

has_weapon(contents) ==
  \E i \in 1..Len(contents.objects) : contents.objects[i] \in Range(weapons)

\* the scan of room_contents.items(), in the dict's insertion order
scan_important ==
  SelectSeq(all_rooms,
            LAMBDA r : /\ r \in DOMAIN room_contents
                       /\ \/ has_suspect(room_contents[r])
                          \/ has_weapon(room_contents[r]))

is_subdirectory(current_segments, next_segments) ==
  /\ Len(next_segments) > Len(current_segments)
  /\ \A j \in 1..Len(current_segments) :
       current_segments[j] = next_segments[j]

\* the sibling test that compares depths only
check_lateral_same_depth(current_segments, next_segments) ==
  /\ Len(current_segments) = Len(next_segments)
  /\ Last(current_segments) # Last(next_segments)

check_lateral_path(current_segments, next_segments) ==
  IF Len(current_segments) # Len(next_segments) THEN FALSE
  ELSE /\ SubSeq(current_segments, 1, Len(current_segments) - 1)
            = SubSeq(next_segments, 1, Len(next_segments) - 1)
       /\ Last(current_segments) # Last(next_segments)

\* the if / elif / else of the hop loop
classify(current_room, next_room) ==
  IF is_subdirectory(split(current_room), split(next_room)) THEN "Descendant"
  ELSE IF check_lateral_path(split(current_room), split(next_room))
  THEN "Lateral"
  ELSE "Upward"

NoClue == [kind |-> "", person |-> "", location |-> "", next_location |-> "",
           next_location_specific |-> "", dialogue |-> 0]

\* "Investigation Conclusion": names no destination
final_clue(k) == [NoClue EXCEPT !.kind = "Investigation Conclusion",
                                !.dialogue = Draw(k, 10)]

\* "Detective's Initial Report"
initial_report(rooms, k) ==
  [NoClue EXCEPT !.kind = "Detective's Initial Report",
                 !.location = Last(split(rooms[1])),
                 !.person = random_choice(all_people, k),
                 !.dialogue = Draw(k + 1, 10)]

\* the clue the loop writes at current_room
hop_clue(current_room, next_room, k) ==
  LET current_segments == split(current_room)
      next_segments == split(next_room)
  IN
  IF classify(current_room, next_room) = "Descendant"
  THEN [NoClue EXCEPT !.kind = "Investigation Update: cd",
                      !.next_location = next_segments[Len(current_segments) + 1],
                      !.dialogue = Draw(k, 10)]
  ELSE IF classify(current_room, next_room) = "Lateral"
  THEN [NoClue EXCEPT !.kind = "Investigation Update: cd ../",
                      !.next_location = Last(next_segments),
                      !.dialogue = Draw(k, 10)]
  ELSE [NoClue EXCEPT !.kind = "New Clue",
                      !.next_location = next_segments[1],
                      !.next_location_specific = Last(next_segments),
                      !.dialogue = IF next_segments[1] # Last(next_segments)
                                   THEN Draw(k, 3) ELSE Draw(k, 10)]

\* important_rooms + [self.murder_location]
add_murder_location_to_path(rooms) == Append(rooms, murder_location)

\* the clue.txt writes in program order: the conclusion at the murder
\* location, the report at the root, one hop clue per consecutive pair
clue_writes(rooms) ==
  <<[at |-> murder_location, clue |-> final_clue(0)]>> \o
  (IF rooms = <<>> THEN <<>>
   ELSE <<[at |-> <<>>, clue |-> initial_report(rooms, 1)]>> \o
        [i \in 1..(Len(rooms) - 1) |->
           [at |-> rooms[i], clue |-> hop_clue(rooms[i], rooms[i + 1], 2 + i)]])

\* open(path / "clue.txt", "w") raises when the directory is missing or the
\* file system refuses the write
write_fails(path) == path \notin game_dirs \/ Refused("clue", path)

RECURSIVE write_all(_, _, _)
write_all(files, writes, n) ==
  IF n = 0 THEN files
  ELSE (writes[n].at :> writes[n].clue) @@ write_all(files, writes, n - 1)

create_breadcrumbs ==
  /\ ~Called("create_breadcrumbs")
  /\ \E rooms \in {add_murder_location_to_path(sort(scan_important))} :
     \E writes \in {clue_writes(rooms)} :
       LET failing == {i \in 1..Len(writes) : write_fails(writes[i].at)}
           first == IF failing = {} THEN 0
                    ELSE CHOOSE i \in failing : \A j \in failing : i <= j
           done == IF first = 0 THEN Len(writes) ELSE first - 1
           draws == IF first = 1 THEN 1 ELSE IF first = 0 THEN Len(writes) + 1
                    ELSE first + 1
       IN
       /\ clue_txt' = write_all(clue_txt, writes, done)
       /\ rng' = Advance(draws)
       /\ trace' = Log("create_breadcrumbs",
                       IF first = 0 THEN "none" ELSE "OSError")
       /\ important_rooms' = IF first = 0 /\ rooms # <<>> THEN rooms ELSE <<>>
  /\ UNCHANGED <<game, game_dirs, persons_txt, objects_txt, notebook_md,
                 stdout, args, gm, fault, pair, hop>>

(* ------------------------- hop classification ------------------------- *)
\* the classification of one ordered pair of location paths
classify_pair ==
  /\ pair # <<>>
  /\ hop = "none"
  /\ hop' = classify(pair[1], pair[2])
  /\ UNCHANGED <<game, disk, rng, stdout, trace, args, gm, important_rooms,
                 fault, pair>>

InitClassify ==
  /\ InitGame
  /\ rng = [x |-> 0, d |-> 0]
  /\ fault = NoFault
  /\ pair \in Rooms \X Rooms
  /\ hop = "none"

NextClassify == classify_pair

SpecClassify == InitClassify /\ [][NextClassify]_vars

(* --------------------------- specifications --------------------------- *)
\* the object's methods, each called at most once, generate_mystery first
\* when it is called at all
Next ==
  \/ \E ns \in InputCounts, nw \in InputCounts : generate_mystery(ns, nw)
  \/ create_game_directories
  \/ create_breadcrumbs

Spec == Init /\ [][Next]_vars

\* the script (__main__): the three calls in order, on a file system that
\* may refuse one path operation
InitMain ==
  /\ InitGame
  /\ rng \in Seeds
  /\ fault \in {NoFault} \cup Faults
  /\ pair = <<>>
  /\ hop = "none"

NextMain ==
  \/ generate_mystery(3, 3)
  \/ Returned("generate_mystery") /\ create_game_directories
  \/ Returned("create_game_directories") /\ create_breadcrumbs

SpecMain == InitMain /\ [][NextMain]_vars

(* ------------------------------ claims -------------------------------- *)
Ops == [i \in 1..Len(trace) |-> trace[i].op]

\* generate_mystery, create_game_directories and create_breadcrumbs have run
\* in that order and each returned
FullRun ==
  /\ Ops = <<"generate_mystery", "create_game_directories", "create_breadcrumbs">>
  /\ \A i \in 1..Len(trace) : trace[i].raised = "none"

RoomIndex(r) == CHOOSE i \in 1..Len(all_rooms) : all_rooms[i] = r

\* C1: after the three operations have run in order, the clue held at the
\* murder location is the "Investigation Conclusion" text, whatever the
\* murder location contains and wherever it sorts.
C1_RevealAtMurderLocation ==
  FullRun => /\ murder_location \in DOMAIN clue_txt
             /\ clue_txt[murder_location].kind = "Investigation Conclusion"

\* C2: the sequence create_breadcrumbs returns after generate_mystery is
\* strictly ascending by path string over all entries but the last, and its
\* last entry is the murder location.
C2_SortedThenMurderLocation ==
  (Returned("generate_mystery") /\ Returned("create_breadcrumbs")) =>
    /\ Len(important_rooms) >= 1
    /\ Last(important_rooms) = murder_location
    /\ \A i, j \in 1..(Len(important_rooms) - 1) :
         i < j => StrLess(Key(important_rooms[i]), Key(important_rooms[j]))

\* a returned sequence of at least three sorted entries whose sorted order
\* differs from the order in which the rooms were scanned
C2_Witness ==
  /\ Returned("generate_mystery") /\ Returned("create_breadcrumbs")
  /\ Len(important_rooms) >= 4
  /\ \E i \in 1..(Len(important_rooms) - 2) :
       RoomIndex(important_rooms[i]) > RoomIndex(important_rooms[i + 1])

\* C3: after generate_mystery the murder location's people list is empty
\* (its object list need not be: the witness is a result with an object in
\* the murder location).
C3_NoPersonAtMurderLocation ==
  Returned("generate_mystery") => room_contents[murder_location].people = <<>>

\* a result in which sampled weapons other than the murder weapon, and
\* red-herring objects, lie in the murder location
C3_Witness ==
  /\ Returned("generate_mystery")
  /\ \E o \in Range(room_contents[murder_location].objects) :
       o \in Range(weapons) /\ o # murder_weapon
  /\ \E o \in Range(room_contents[murder_location].objects) :
       o \notin Range(weapons)

InRange(n) == IF n < 3 THEN 3 ELSE IF n > 20 THEN 20 ELSE n

\* C4: for every pair of integer arguments generate_mystery raises nothing,
\* the effective counts are the arguments clamped into [3, 20], and the
\* sampled suspects and weapons are exactly that many distinct pool members.
C4_ClampedNeverRejected ==
  Called("generate_mystery") =>
    /\ trace[1].raised = "none"
    /\ gm.num_suspects = InRange(args[1])
    /\ gm.num_weapons = InRange(args[2])
    /\ Len(suspects) = gm.num_suspects
    /\ Len(weapons) = gm.num_weapons
    /\ Cardinality(Range(suspects)) = Len(suspects)
    /\ Cardinality(Range(weapons)) = Len(weapons)
    /\ Range(suspects) \subseteq Range(all_people)
    /\ Range(weapons) \subseteq Range(all_objects)

\* a call with a negative suspect count and a weapon count above the pool
C4_Witness ==
  /\ Called("generate_mystery")
  /\ args[1] < 0
  /\ args[2] > 20
  /\ Len(suspects) = 3
  /\ Len(weapons) = 20

PeoplePlaced == UNION {Range(room_contents[r].people) : r \in Rooms}

\* C5 as stated: with arguments (3, 3) three suspects and three weapons are
\* sampled, the red-herring quota for suspects is 9 and 11 people are
\* distributed.
C5_QuotaNine ==
  (Returned("generate_mystery") /\ args = <<3, 3>>) =>
    /\ Len(suspects) = 3
    /\ Len(weapons) = 3
    /\ gm.extra_people_count = 9
    /\ Len(gm.distribution_people) = 11

\* C5 amended: with arguments (3, 3) three suspects and three weapons are
\* sampled, the red-herring quota for suspects is min(35 - 2, round(8.5))
\* = 8 (round takes the exact half 8.5 to the even 8), and 10 people are
\* distributed.
C5_QuotaEight ==
  (Returned("generate_mystery") /\ args = <<3, 3>>) =>
    /\ Len(suspects) = 3
    /\ Len(weapons) = 3
    /\ Len(available_rooms_of(murder_location)) = 35
    /\ gm.extra_people_count = 8
    /\ Len(gm.distribution_people) = 10
    /\ Cardinality(PeoplePlaced) = 10

C5_Witness ==
  /\ Returned("generate_mystery")
  /\ args = <<3, 3>>
  /\ gm.extra_people_count > 0

Parent(path) == SubSeq(path, 1, Len(path) - 1)

TrueDescendant(current, next) ==
  Len(next) > Len(current) /\ SubSeq(next, 1, Len(current)) = current

Siblings(current, next) == current # next /\ Parent(current) = Parent(next)

\* C6: for every ordered pair of location paths the hop class is exactly
\* one of Descendant, Lateral, Upward: Descendant when next is a true
\* descendant of current, Lateral when the two are distinct paths with the
\* same immediate parent, Upward in all remaining cases.
C6_Classification ==
  hop # "none" =>
    /\ hop \in {"Descendant", "Lateral", "Upward"}
    /\ TrueDescendant(pair[1], pair[2]) => hop = "Descendant"
    /\ Siblings(pair[1], pair[2]) => hop = "Lateral"
    /\ (~TrueDescendant(pair[1], pair[2]) /\ ~Siblings(pair[1], pair[2]))
         => hop = "Upward"

\* two distinct top-level locations, classified
C6_Witness ==
  /\ hop = "Lateral"
  /\ Len(pair[1]) = 1
  /\ Len(pair[2]) = 1

\* C7: the introductory hint at the root names the top-level (first) segment
\* of the first entry of the important-location sequence.
C7_ReportNamesTopLevel ==
  FullRun => clue_txt[<<>>].location = important_rooms[1][1]

\* C8: the observer named in the root introductory hint is a person of the
\* pool who is not among the sampled suspects.
C8_ObserverNotSuspect ==
  FullRun => /\ clue_txt[<<>>].person \in Range(all_people)
             /\ clue_txt[<<>>].person \notin Range(suspects)

\* C9: when create_breadcrumbs runs on room contents with no important
\* location it completes without error, the only clue is the murder-location
\* reveal, and neither the root introductory hint nor a hop hint is written.
C9_NoImportantNoReport ==
  (Ops = <<"create_game_directories", "create_breadcrumbs">>
     /\ scan_important = <<>>) =>
    /\ Returned("create_breadcrumbs")
    /\ \A p \in DOMAIN clue_txt :
         clue_txt[p].kind = "Investigation Conclusion"

\* the locations at which create_breadcrumbs writes a clue
ClueLocations == Range(sort(scan_important)) \cup {murder_location}

\* the refused operation is one the run attempts
FaultMet ==
  \/ fault.kind \in {"mkdir", "persons", "objects"}
  \/ fault.kind = "clue" /\ fault.room \in ClueLocations

Reported ==
  \/ stdout # <<>>
  \/ \E i \in 1..Len(trace) : trace[i].raised # "none"

\* C10: a failed write for one location is reported and does not abort the
\* run: every other location still gets its directory, its persons and
\* objects files and, where the trail passes through it, its clue.
C10_FailureIsolated ==
  (Called("create_breadcrumbs") /\ FaultMet) =>
    /\ Reported
    /\ \A r \in Rooms \ {fault.room} :
         /\ r \in game_dirs
         /\ r \in DOMAIN persons_txt
         /\ r \in DOMAIN objects_txt
         /\ r \in ClueLocations => r \in DOMAIN clue_txt

\* holds a member of the sampled suspects or of the sampled weapons
HoldsSampled(r) ==
  \/ Range(room_contents[r].people) \cap Range(suspects) # {}
  \/ Range(room_contents[r].objects) \cap Range(weapons) # {}

\* the entries of the returned sequence before its final one
SortedPart == SubSeq(important_rooms, 1, Len(important_rooms) - 1)

\* C11: the sorted (non-final) part of the important-location sequence is
\* exactly the locations holding a sampled suspect or a sampled weapon, each
\* once; an empty location or one holding only red herrings is not in it.
C11_ExactlyTheSampledHolders ==
  (Returned("generate_mystery") /\ Returned("create_breadcrumbs")) =>
    \A r \in Rooms :
      Cardinality({i \in 1..Len(SortedPart) : SortedPart[i] = r})
        = IF HoldsSampled(r) THEN 1 ELSE 0

\* a returned sequence with an included location, an empty location, and a
\* location left out although it holds red-herring people and objects
C11_Witness ==
  /\ Returned("generate_mystery") /\ Returned("create_breadcrumbs")
  /\ \E r \in Rooms : HoldsSampled(r) /\ r \in Range(SortedPart)
  /\ \E r \in Rooms : /\ room_contents[r].people = <<>>
                      /\ room_contents[r].objects = <<>>
                      /\ r \notin Range(SortedPart)
  /\ \E r \in Rooms : /\ room_contents[r].people # <<>>
                      /\ ~HoldsSampled(r)
                      /\ r \notin Range(SortedPart)
  /\ \E r \in Rooms : /\ room_contents[r].objects # <<>>
                      /\ ~HoldsSampled(r)
                      /\ r \notin Range(SortedPart)

====
